---- MODULE Spec2Model ----
(***************************************************************************)
(* Model of release-please-detect-major-changes: the version parser and    *)
(* major-bump predicate (src/utils/version.ts) and the manifest differ     *)
(* (src/utils/manifest.ts).                                                *)
(*                                                                         *)
(* A JavaScript string is a sequence of one-character strings.  A          *)
(* JavaScript value is a record [type, chars]: for a string, chars is its  *)
(* text; for any other value, chars is what template interpolation         *)
(* `${value}` prints, held as one chunk.                                   *)
(***************************************************************************)
EXTENDS Integers, Sequences, FiniteSets, TLC

VARIABLES oldVersion, newVersion, verOp, verOut,
          oldManifest, newManifest, analysis, calls,
          payload, inputs, responses, pc, inputsRead, client, requests,
          fetches, completed, detect, infos, outputs, failed, runPromise

vars == <<oldVersion, newVersion, verOp, verOut,
          oldManifest, newManifest, analysis, calls,
          payload, inputs, responses, pc, inputsRead, client, requests,
          fetches, completed, detect, infos, outputs, failed, runPromise>>

\* the variables of run()
runVars == <<payload, inputs, responses, pc, inputsRead, client, requests,
             fetches, completed, detect, infos, outputs, failed, runPromise>>

\* no action is running: the differ or the version functions are called
\* on their own
NoRun ==
    /\ payload = [pull_request |-> FALSE]
    /\ inputs = [github_token |-> "", manifest_file |-> ""]
    /\ responses = <<>>
    /\ pc = "idle"
    /\ inputsRead = <<>>
    /\ client = "none"
    /\ requests = <<>>
    /\ fetches = <<>>
    /\ completed = <<>>
    /\ detect = [kind |-> "none"]
    /\ infos = <<>>
    /\ outputs = <<>>
    /\ failed = <<>>
    /\ runPromise = "none"

(***************************************************************************)
(* Bounds of the model.                                                    *)
(***************************************************************************)
MaxMajor == 2
MaxKeys == 2
MaxCalls == 3

(***************************************************************************)
(* JavaScript values and call outcomes.                                    *)
(***************************************************************************)
Str(chars) == [type |-> "string", chars |-> chars]
Undefined == [type |-> "undefined", chars |-> <<"undefined">>]
NativeFunction(name) ==
    [type |-> "function", chars |-> <<"function ", name, "() { [native code] }">>]

\* if (value) ...: the empty string and undefined are falsy, a function is truthy
Truthy(v) ==
    CASE v.type = "string" -> v.chars # <<>>
      [] v.type = "undefined" -> FALSE
      [] OTHER -> TRUE

Return(v) == [kind |-> "return", value |-> v]
Throw(msg) == [kind |-> "throw", message |-> msg]
NotCalled == [kind |-> "none"]

(***************************************************************************)
(* Characters.                                                             *)
(***************************************************************************)
Digits == {"0", "1", "2", "3", "4", "5", "6", "7", "8", "9"}
Letters ==
    {"a", "b", "c", "d", "e", "f", "g", "h", "i", "j", "k", "l", "m",
     "n", "o", "p", "q", "r", "s", "t", "u", "v", "w", "x", "y", "z",
     "A", "B", "C", "D", "E", "F", "G", "H", "I", "J", "K", "L", "M",
     "N", "O", "P", "Q", "R", "S", "T", "U", "V", "W", "X", "Y", "Z"}

DigitValue(c) ==
    CASE c = "0" -> 0 [] c = "1" -> 1 [] c = "2" -> 2 [] c = "3" -> 3
      [] c = "4" -> 4 [] c = "5" -> 5 [] c = "6" -> 6 [] c = "7" -> 7
      [] c = "8" -> 8 [] c = "9" -> 9

DigitChar(d) ==
    CASE d = 0 -> "0" [] d = 1 -> "1" [] d = 2 -> "2" [] d = 3 -> "3"
      [] d = 4 -> "4" [] d = 5 -> "5" [] d = 6 -> "6" [] d = 7 -> "7"
      [] d = 8 -> "8" [] d = 9 -> "9"

AllIn(s, set) == \A i \in 1..Len(s) : s[i] \in set

\* Number(text) of a run of decimal digits
RECURSIVE DigitsToNat(_)
DigitsToNat(ds) ==
    IF ds = <<>> THEN 0
    ELSE 10 * DigitsToNat(SubSeq(ds, 1, Len(ds) - 1)) + DigitValue(ds[Len(ds)])

\* String(n) of a non-negative integer
RECURSIVE NatToDigits(_)
NatToDigits(n) ==
    IF n < 10 THEN <<DigitChar(n)>>
    ELSE NatToDigits(n \div 10) \o <<DigitChar(n % 10)>>

\* position of the first character of s that is in set, or 0
FirstIn(s, set) ==
    IF \E i \in 1..Len(s) : s[i] \in set
    THEN CHOOSE i \in 1..Len(s) : s[i] \in set /\ \A j \in 1..(i - 1) : s[j] \notin set
    ELSE 0

\* s.split(sep)
RECURSIVE Split(_, _)
Split(s, sep) ==
    LET i == FirstIn(s, {sep})
    IN  IF i = 0 THEN <<s>>
        ELSE <<SubSeq(s, 1, i - 1)>> \o Split(SubSeq(s, i + 1, Len(s)), sep)

\* parts.join(sep)
RECURSIVE Join(_, _)
Join(parts, sep) ==
    IF parts = <<>> THEN <<>>
    ELSE IF Len(parts) = 1 THEN parts[1]
    ELSE parts[1] \o <<sep>> \o Join(Tail(parts), sep)

(***************************************************************************)
(* semver.parse(version) in strict mode, as called on line 17 of           *)
(* src/utils/version.ts: the text must match                               *)
(*   ^v?MAJOR.MINOR.PATCH(-PRERELEASE)?(+BUILD)?$                          *)
(* where the three numbers are 0|[1-9]\d* and do not exceed                *)
(* Number.MAX_SAFE_INTEGER, and the text is at most 256 characters long.   *)
(* A value that is no string, and a text that does not match, give null.   *)
(* The texts of this model carry no surrounding whitespace.                *)
(***************************************************************************)
Null == [type |-> "null", chars |-> <<"null">>]

IdentifierChars == Digits \cup Letters \cup {"-"}

\* 0|[1-9]\d*
NumericIdentifier(s) ==
    /\ s # <<>>
    /\ AllIn(s, Digits)
    /\ (s[1] = "0" => Len(s) = 1)

\* 0|[1-9]\d*|\d*[a-zA-Z-][a-zA-Z0-9-]*
PrereleaseIdentifier(s) ==
    /\ s # <<>>
    /\ AllIn(s, IdentifierChars)
    /\ (AllIn(s, Digits) => NumericIdentifier(s))

\* [0-9A-Za-z-]+
BuildIdentifier(s) == s # <<>> /\ AllIn(s, IdentifierChars)

\* the digits of Number.MAX_SAFE_INTEGER, 9007199254740991
MaxSafeDigits ==
    <<"9", "0", "0", "7", "1", "9", "9", "2", "5", "4", "7", "4", "0", "9", "9", "1">>

\* a > b for two runs of digits of the same length
RECURSIVE DigitsGreater(_, _)
DigitsGreater(a, b) ==
    IF a = <<>> THEN FALSE
    ELSE IF a[1] # b[1] THEN DigitValue(a[1]) > DigitValue(b[1])
    ELSE DigitsGreater(Tail(a), Tail(b))

\* num > MAX_SAFE_INTEGER, for a numeric identifier
ExceedsMaxSafe(ds) ==
    \/ Len(ds) > Len(MaxSafeDigits)
    \/ Len(ds) = Len(MaxSafeDigits) /\ DigitsGreater(ds, MaxSafeDigits)

\* the text without a leading "v"
Unprefixed(t) == IF t # <<>> /\ t[1] = "v" THEN Tail(t) ELSE t

\* the parts of the unprefixed text: MAJOR.MINOR.PATCH, then the prerelease
\* after the first "-" and the build metadata after the first "+"
HasBuild(body) == FirstIn(body, {"+"}) # 0
BeforeBuild(body) ==
    IF HasBuild(body) THEN SubSeq(body, 1, FirstIn(body, {"+"}) - 1) ELSE body
BuildPart(body) == SubSeq(body, FirstIn(body, {"+"}) + 1, Len(body))
HasPrerelease(body) == FirstIn(BeforeBuild(body), {"-"}) # 0
MainPart(body) ==
    IF HasPrerelease(body)
    THEN SubSeq(BeforeBuild(body), 1, FirstIn(BeforeBuild(body), {"-"}) - 1)
    ELSE BeforeBuild(body)
PrereleasePart(body) ==
    SubSeq(BeforeBuild(body), FirstIn(BeforeBuild(body), {"-"}) + 1,
           Len(BeforeBuild(body)))

AllIdentifiers(ids, strict) ==
    \A i \in 1..Len(ids) :
        IF strict THEN PrereleaseIdentifier(ids[i]) ELSE BuildIdentifier(ids[i])

MainMatches(m) ==
    /\ Len(m) = 3
    /\ \A i \in 1..3 : NumericIdentifier(m[i]) /\ ~ExceedsMaxSafe(m[i])

\* the strict regular expression, on the unprefixed text
FullMatches(body) ==
    /\ MainMatches(Split(MainPart(body), "."))
    /\ HasPrerelease(body) => AllIdentifiers(Split(PrereleasePart(body), "."), TRUE)
    /\ HasBuild(body) => AllIdentifiers(Split(BuildPart(body), "."), FALSE)

\* SemVer.format(): major.minor.patch and the prerelease; the build metadata
\* is not part of .version
Format(major, minor, patch, prerelease) ==
    NatToDigits(major) \o <<".">> \o NatToDigits(minor) \o <<".">> \o NatToDigits(patch)
        \o (IF prerelease = <<>> THEN <<>> ELSE <<"-">> \o Join(prerelease, "."))

\* new SemVer(): the numbers of the three parts m and the formatted version
SemVer(m, prerelease) ==
    [type |-> "SemVer",
     version |-> Format(DigitsToNat(m[1]), DigitsToNat(m[2]), DigitsToNat(m[3]),
                        prerelease),
     major |-> DigitsToNat(m[1]),
     minor |-> DigitsToNat(m[2]),
     patch |-> DigitsToNat(m[3])]

semverParseText(body) ==
    IF ~FullMatches(body) THEN Null
    ELSE SemVer(Split(MainPart(body), "."),
                IF HasPrerelease(body) THEN Split(PrereleasePart(body), ".") ELSE <<>>)

semverParse(version) ==
    IF version.type # "string" THEN Null
    ELSE IF Len(version.chars) > 256 THEN Null
    ELSE semverParseText(Unprefixed(version.chars))

(***************************************************************************)
(* src/utils/version.ts                                                    *)
(***************************************************************************)
InvalidVersionFormat(version) == <<"Invalid version format: ">> \o version.chars

\* variant of parseVersionResult that returns the input text as .version
parseVersionResult_InputAsVersion(version, parsed) ==
    IF parsed.type = "null" THEN Throw(InvalidVersionFormat(version))
    ELSE Return([version |-> version.chars, major |-> parsed.major,
                 minor |-> parsed.minor, patch |-> parsed.patch])

\* parseVersion after `const parsed = semver.parse(version)`
parseVersionResult(version, parsed) ==
    IF parsed.type = "null" THEN Throw(InvalidVersionFormat(version))
    ELSE Return([version |-> parsed.version, major |-> parsed.major,
                 minor |-> parsed.minor, patch |-> parsed.patch])

parseVersion(version) == parseVersionResult(version, semverParse(version))

\* variant of isMajorBumpResult that compares with >=
isMajorBumpResult_GreaterOrEqual(oldVer, newVer) ==
    IF oldVer.kind = "throw" THEN oldVer
    ELSE IF newVer.kind = "throw" THEN newVer
    ELSE Return(newVer.value.major >= oldVer.value.major)

\* variant of isMajorBumpResult that catches the parse error and answers false
isMajorBumpResult_Caught(oldVer, newVer) ==
    IF oldVer.kind = "throw" THEN Return(FALSE)
    ELSE IF newVer.kind = "throw" THEN Return(FALSE)
    ELSE Return(newVer.value.major > oldVer.value.major)

\* isMajorBump, given the outcomes of parseVersion(oldVersion) and
\* parseVersion(newVersion): the first error is thrown on
isMajorBumpResult(oldVer, newVer) ==
    IF oldVer.kind = "throw" THEN oldVer
    ELSE IF newVer.kind = "throw" THEN newVer
    ELSE Return(newVer.value.major > oldVer.value.major)

isMajorBump(oldV, newV) == isMajorBumpResult(parseVersion(oldV), parseVersion(newV))

(***************************************************************************)
(* Objects.  A plain object is the sequence of its own properties in       *)
(* insertion order, the order Object.entries enumerates them in.  A        *)
(* property read obj[key] that finds no own property goes on to            *)
(* Object.prototype.                                                       *)
(***************************************************************************)
Obj(entries) == [type |-> "object", entries |-> entries]
NullManifest == [type |-> "null", entries |-> <<>>]

ObjectPrototypeKeys == {"constructor", "toString", "valueOf", "hasOwnProperty"}

\* Object.prototype[key]: constructor is the function Object, the others are
\* functions of their own name
ObjectPrototype(key) ==
    IF key = "constructor" THEN NativeFunction("Object") ELSE NativeFunction(key)

Keys(obj) == {obj.entries[i].key : i \in 1..Len(obj.entries)}

HasOwn(obj, key) == key \in Keys(obj)

OwnValue(obj, key) ==
    obj.entries[CHOOSE i \in 1..Len(obj.entries) : obj.entries[i].key = key].value

\* obj?.[key] on a non-null object
Get(obj, key) ==
    IF HasOwn(obj, key) THEN OwnValue(obj, key)
    ELSE IF key \in ObjectPrototypeKeys THEN ObjectPrototype(key)
    ELSE Undefined

\* entries after obj[key] = value
SetEntry(entries, key, value) ==
    IF \E i \in 1..Len(entries) : entries[i].key = key
    THEN [i \in 1..Len(entries) |->
            IF entries[i].key = key THEN [key |-> key, value |-> value]
            ELSE entries[i]]
    ELSE Append(entries, [key |-> key, value |-> value])

(***************************************************************************)
(* src/utils/manifest.ts                                                   *)
(***************************************************************************)
\* the condition of the if statement in the loop body:
\*   oldVersion && oldVersion !== newVersion && isMajorBump(oldVersion, newVersion)
\* variant of recordsBumpResult that skips a version that does not parse
recordsBumpResult_SkipsInvalid(oldV, newV, bump) ==
    IF ~Truthy(oldV) THEN Return(FALSE)
    ELSE IF oldV = newV THEN Return(FALSE)
    ELSE IF bump.kind = "throw" THEN Return(FALSE)
    ELSE bump

\* the condition of the if statement in the loop body,
\*   oldVersion && oldVersion !== newVersion && isMajorBump(oldVersion, newVersion)
\* where bump is the outcome of the isMajorBump call
recordsBumpResult(oldV, newV, bump) ==
    IF ~Truthy(oldV) THEN Return(FALSE)
    ELSE IF oldV = newV THEN Return(FALSE)
    ELSE bump

recordsBump(oldV, newV) == recordsBumpResult(oldV, newV, isMajorBump(oldV, newV))

\* the if statement: majorBumps after it, or the error thrown by the condition
recordIf(majorBumps, path, oldV, newV, condition) ==
    IF condition.kind = "throw" THEN condition
    ELSE IF condition.value
    THEN Return(SetEntry(majorBumps, path, <<oldV, newV>>))
    ELSE Return(majorBumps)

\* the loop body for one entry [path, newVersion] of newManifest
loopBody(oldM, path, newV, majorBumps) ==
    recordIf(majorBumps, path, Get(oldM, path), newV,
             recordsBump(Get(oldM, path), newV))

\* variant of analyzeLoop that leaves the loop once a bump is recorded
RECURSIVE analyzeLoop_BreaksAfterBump(_, _, _, _)
analyzeLoop_BreaksAfterBump(oldM, newEntries, i, state) ==
    IF i > Len(newEntries) THEN state
    ELSE IF state.kind = "throw" THEN state
    ELSE IF Len(state.value) > 0 THEN state
    ELSE analyzeLoop_BreaksAfterBump(oldM, newEntries, i + 1,
                     loopBody(oldM, newEntries[i].key, newEntries[i].value,
                              state.value))

\* the for loop over Object.entries(newManifest) from the i-th entry on;
\* state is the majorBumps recorded so far, or the error thrown
RECURSIVE analyzeLoop(_, _, _, _)
analyzeLoop(oldM, newEntries, i, state) ==
    IF i > Len(newEntries) THEN state
    ELSE IF state.kind = "throw" THEN state
    ELSE analyzeLoop(oldM, newEntries, i + 1,
                     loopBody(oldM, newEntries[i].key, newEntries[i].value,
                              state.value))

\* variant of analyzeResult that tests only oldManifest for null:
\* Object.entries(null) throws
analyzeResult_OldNullOnly(oldM, newM, loop) ==
    IF oldM.type = "null"
    THEN Return([hasMajorBump |-> FALSE, majorBumps |-> <<>>])
    ELSE IF newM.type = "null"
    THEN Throw(<<"Cannot convert undefined or null to object">>)
    ELSE IF loop.kind = "throw" THEN loop
    ELSE Return([hasMajorBump |-> Len(loop.value) > 0, majorBumps |-> loop.value])

\* variant of analyzeResult that sets hasMajorBump only when more than one
\* path is recorded
analyzeResult_MoreThanOne(oldM, newM, loop) ==
    IF oldM.type = "null" \/ newM.type = "null"
    THEN Return([hasMajorBump |-> FALSE, majorBumps |-> <<>>])
    ELSE IF loop.kind = "throw" THEN loop
    ELSE Return([hasMajorBump |-> Len(loop.value) > 1, majorBumps |-> loop.value])

\* variant of analyzeResult that first parses every version of the old snapshot
analyzeResult_ParsesOld(oldM, newM, loop) ==
    IF oldM.type = "null" \/ newM.type = "null"
    THEN Return([hasMajorBump |-> FALSE, majorBumps |-> <<>>])
    ELSE IF \E i \in 1..Len(oldM.entries) :
                parseVersion(oldM.entries[i].value).kind = "throw"
    THEN parseVersion(oldM.entries[
             CHOOSE i \in 1..Len(oldM.entries) :
                 parseVersion(oldM.entries[i].value).kind = "throw"].value)
    ELSE IF loop.kind = "throw" THEN loop
    ELSE Return([hasMajorBump |-> Len(loop.value) > 0, majorBumps |-> loop.value])

\* variant of analyzeResult that returns from inside the loop once a path is
\* recorded
analyzeResult_ReturnsAtFirst(oldM, newM, loop) ==
    IF oldM.type = "null" \/ newM.type = "null"
    THEN Return([hasMajorBump |-> FALSE, majorBumps |-> <<>>])
    ELSE IF loop.kind = "throw" THEN loop
    ELSE Return([hasMajorBump |-> Len(loop.value) > 0,
                 majorBumps |-> IF Len(loop.value) > 1 THEN <<loop.value[1]>>
                                ELSE loop.value])

\* analyzeManifestChanges, where loop is the outcome of its for loop: the
\* null test comes first, an error thrown in the loop is thrown on, and else
\* the recorded majorBumps are returned with their flag
analyzeResult(oldM, newM, loop) ==
    IF oldM.type = "null" \/ newM.type = "null"
    THEN Return([hasMajorBump |-> FALSE, majorBumps |-> <<>>])
    ELSE IF loop.kind = "throw" THEN loop
    ELSE Return([hasMajorBump |-> Len(loop.value) > 0, majorBumps |-> loop.value])

\* variant of newMajorBumps in which majorBumps is kept at module level, so
\* that a call starts from the entries the call before it returned
newMajorBumps_Hoisted ==
    IF analysis.kind = "return" THEN analysis.value.majorBumps ELSE <<>>

\* const majorBumps = {}: every call starts from a fresh empty object
newMajorBumps == <<>>

analyzeManifestChanges(oldM, newM) ==
    analyzeResult(oldM, newM,
                  analyzeLoop(oldM, newM.entries, 1, Return(newMajorBumps)))

(***************************************************************************)
(* Inputs.                                                                 *)
(***************************************************************************)
V(major, minor, patch) ==
    NatToDigits(major) \o <<".">> \o NatToDigits(minor) \o <<".">> \o NatToDigits(patch)

Majors == (0..MaxMajor) \cup {9, 10}

\* prefix, three numbers, suffix
ShapedTexts ==
    {prefix \o V(major, minor, patch) \o suffix :
        prefix \in {<<>>, <<"v">>},
        major \in Majors, minor \in {0, 3}, patch \in {0, 4},
        suffix \in {<<>>, <<"-", "r", "c", ".", "1">>}}

OtherTexts ==
    { <<>>,
      <<"v">>,
      <<"1", ".", "2">>,
      <<"v", "1", ".", "2">>,
      <<"1", ".", "2", ".", "3", ".", "4">>,
      <<"1", ".", "2", ".", "x">>,
      <<"1", ".", ".", "3">>,
      <<".", "1", ".", "2", ".", "3">>,
      <<"v", "v", "1", ".", "2", ".", "3">>,
      <<"x", "1", ".", "2", ".", "3">>,
      <<"V", "1", ".", "2", ".", "3">>,
      <<"=", "1", ".", "2", ".", "3">>,
      <<"0", "1", ".", "2", ".", "3">>,
      <<"1", ".", "2", ".", "0", "3">>,
      <<"1", ".", "2", ".", "3", "+", "b">>,
      <<"1", ".", "2", ".", "3", "+">>,
      <<"1", ".", "2", ".", "3", "-">>,
      <<"1", ".", "2", ".", "3", "-", "0", "1">>,
      <<"1", ".", "2", ".", "3", "-", "r", "c", ".", ".", "1">>,
      <<"1", ".", "2", ".", "3", "-", "r", "c", "+", "b", "-", "1">>,
      <<"1", ".", "2", ".", "3", "r", "c">>,
      <<"9", "0", "0", "7", "1", "9", "9", "2", "5", "4", "7", "4", "0", "9", "9", "2",
        ".", "0", ".", "0">>,
      <<"1", "2", "3", "4", "5", "6", "7", "8", "9", "0", "1", "2", "3", "4", "5", "6", "7",
        ".", "0", ".", "0">> }

Texts == ShapedTexts \cup OtherTexts

Paths == {".", "packages/foo", "constructor"}
PathOrder == <<".", "constructor", "packages/foo">>

ManifestTexts ==
    { <<"1", ".", "2", ".", "3">>,
      <<"1", ".", "3", ".", "0">>,
      <<"2", ".", "0", ".", "0">>,
      <<"1", ".", "2">>,
      <<>> }

KeySeqs(n) == {ks \in [1..n -> Paths] : \A i, j \in 1..n : ks[i] = ks[j] => i = j}

ManifestOf(ks, vs) ==
    Obj([i \in 1..Len(ks) |-> [key |-> ks[i], value |-> Str(vs[i])]])

\* the objects JSON.parse can give: up to MaxKeys properties, in any order
NewManifests ==
    UNION {{ManifestOf(ks, vs) : ks \in KeySeqs(n), vs \in [1..n -> ManifestTexts]} :
           n \in 0..MaxKeys}

Position(path) == CHOOSE i \in 1..Len(PathOrder) : PathOrder[i] = path

\* the old snapshot is only ever read by key: one order of its keys is enough
OldManifests ==
    {m \in NewManifests :
        \A i, j \in 1..Len(m.entries) :
            i < j => Position(m.entries[i].key) < Position(m.entries[j].key)}

(***************************************************************************)
(* Specification of the differ: a pair of snapshots, either of which may   *)
(* be absent, and one call of analyzeManifestChanges on it.                *)
(***************************************************************************)
Init ==
    /\ oldVersion = <<>>
    /\ newVersion = <<>>
    /\ verOp = "none"
    /\ verOut = NotCalled
    /\ oldManifest \in OldManifests \cup {NullManifest}
    /\ newManifest \in NewManifests \cup {NullManifest}
    /\ analysis = NotCalled
    /\ calls = <<>>
    /\ NoRun

Analyze ==
    /\ analysis = NotCalled
    /\ analysis' = analyzeManifestChanges(oldManifest, newManifest)
    /\ UNCHANGED <<oldVersion, newVersion, verOp, verOut, oldManifest, newManifest,
                   calls, runVars>>

Next == Analyze

Spec == Init /\ [][Next]_vars

(***************************************************************************)
(* Specification of the version functions: two texts, and one call of      *)
(* parseVersion (on oldVersion) or of isMajorBump (on both).               *)
(***************************************************************************)
InitVersion ==
    /\ oldVersion \in Texts
    /\ newVersion \in Texts
    /\ verOp = "none"
    /\ verOut = NotCalled
    /\ oldManifest = NullManifest
    /\ newManifest = NullManifest
    /\ analysis = NotCalled
    /\ calls = <<>>
    /\ NoRun

CallParseVersion ==
    /\ verOp = "none"
    /\ verOp' = "parseVersion"
    /\ verOut' = parseVersion(Str(oldVersion))
    /\ UNCHANGED <<oldVersion, newVersion, oldManifest, newManifest, analysis,
                   calls, runVars>>

CallIsMajorBump ==
    /\ verOp = "none"
    /\ verOp' = "isMajorBump"
    /\ verOut' = isMajorBump(Str(oldVersion), Str(newVersion))
    /\ UNCHANGED <<oldVersion, newVersion, oldManifest, newManifest, analysis,
                   calls, runVars>>

NextVersion == CallParseVersion \/ CallIsMajorBump

SpecVersion == InitVersion /\ [][NextVersion]_vars

(***************************************************************************)
(* Specification of the differ for the enumeration order of the new        *)
(* snapshot: one call of analyzeManifestChanges, on snapshots that hold    *)
(* well-formed texts and, in the new snapshot, two different malformed     *)
(* ones.                                                                   *)
(***************************************************************************)
OrderOldTexts == {V(1, 2, 3), <<"1", ".", "2">>}
OrderNewTexts == {V(1, 2, 3), V(2, 0, 0), <<"1", ".", "2">>, <<>>}

ValuesIn(m, texts) ==
    \A i \in DOMAIN m.entries : m.entries[i].value.chars \in texts

InitOrder ==
    /\ oldVersion = <<>>
    /\ newVersion = <<>>
    /\ verOp = "none"
    /\ verOut = NotCalled
    /\ oldManifest \in {m \in OldManifests : ValuesIn(m, OrderOldTexts)}
                         \cup {NullManifest}
    /\ newManifest \in {m \in NewManifests : ValuesIn(m, OrderNewTexts)}
                         \cup {NullManifest}
    /\ analysis = NotCalled
    /\ calls = <<>>
    /\ NoRun

SpecOrder == InitOrder /\ [][Next]_vars

(***************************************************************************)
(* Specification of repeated calls: analyzeManifestChanges is called up to *)
(* MaxCalls times in one process, each time on a pair of snapshots of the  *)
(* caller's choice; calls keeps the arguments and the outcome of each.     *)
(***************************************************************************)
CallTexts == {V(1, 2, 3), V(2, 0, 0), <<"1", ".", "2">>}

CallManifests ==
    {NullManifest, Obj(<<>>)}
        \cup {Obj(<<[key |-> ".", value |-> Str(t)]>>) : t \in CallTexts}

InitCalls ==
    /\ oldVersion = <<>>
    /\ newVersion = <<>>
    /\ verOp = "none"
    /\ verOut = NotCalled
    /\ oldManifest = NullManifest
    /\ newManifest = NullManifest
    /\ analysis = NotCalled
    /\ calls = <<>>
    /\ NoRun

CallAnalyze ==
    \E o \in CallManifests, n \in CallManifests :
        /\ Len(calls) < MaxCalls
        /\ oldManifest' = o
        /\ newManifest' = n
        /\ analysis' = analyzeManifestChanges(o, n)
        /\ calls' = Append(calls, [old |-> o, new |-> n, outcome |-> analysis'])
        /\ UNCHANGED <<oldVersion, newVersion, verOp, verOut, runVars>>

NextCalls == CallAnalyze

SpecCalls == InitCalls /\ [][NextCalls]_vars

(***************************************************************************)
(* JSON text.  A text is a sequence of characters; a property name is kept *)
(* as one element between its quotes.                                      *)
(***************************************************************************)
Quote == "\""
Backslash == "\\"

RECURSIVE Escape(_)
Escape(chars) ==
    IF chars = <<>> THEN <<>>
    ELSE (IF Head(chars) \in {Quote, Backslash}
          THEN <<Backslash, Head(chars)>>
          ELSE <<Head(chars)>>) \o Escape(Tail(chars))

JSONString(chars) == <<Quote>> \o Escape(chars) \o <<Quote>>

\* "path":["old","new"]
BumpMember(entry) ==
    <<Quote, entry.key, Quote, ":", "[">>
        \o JSONString(entry.value[1].chars) \o <<",">>
        \o JSONString(entry.value[2].chars) \o <<"]">>

RECURSIVE BumpMembers(_, _)
BumpMembers(entries, i) ==
    IF i > Len(entries) THEN <<>>
    ELSE (IF i > 1 THEN <<",">> ELSE <<>>)
            \o BumpMember(entries[i]) \o BumpMembers(entries, i + 1)

\* variant of JSONStringify that writes an empty mapping as null
JSONStringify_EmptyAsNull(majorBumps) ==
    IF majorBumps = <<>> THEN <<"n", "u", "l", "l">>
    ELSE <<"{">> \o BumpMembers(majorBumps, 1) \o <<"}">>

\* JSON.stringify(analysis.majorBumps): the properties in insertion order
JSONStringify(majorBumps) == <<"{">> \o BumpMembers(majorBumps, 1) \o <<"}">>

\* "path":"version"
ManifestMember(entry) ==
    <<Quote, entry.key, Quote, ":">> \o JSONString(entry.value.chars)

RECURSIVE ManifestMembers(_, _)
ManifestMembers(entries, i) ==
    IF i > Len(entries) THEN <<>>
    ELSE (IF i > 1 THEN <<",">> ELSE <<>>)
            \o ManifestMember(entries[i]) \o ManifestMembers(entries, i + 1)

\* the text of a manifest file holding the given snapshot
ManifestText(manifest) ==
    <<"{">> \o ManifestMembers(manifest.entries, 1) \o <<"}">>

\* a value that is thrown or that a promise rejects with
ErrorValue(type, isError, hasStatus, status, message) ==
    [type |-> type, isError |-> isError, hasStatus |-> hasStatus,
     status |-> status, message |-> message]

\* new Error(message)
ErrorInstance(message) == ErrorValue("object", TRUE, FALSE, 0, message)

\* the outcome of a promise that rejects with error
Rejected(error) == [kind |-> "reject", error |-> error]
Pending == [kind |-> "pending"]

SyntaxError == Rejected(ErrorInstance(<<"Unexpected token in JSON">>))

\* a string from the position after its opening quote: its characters and
\* the position after its closing quote
RECURSIVE ParseString(_, _, _)
ParseString(text, j, acc) ==
    IF j > Len(text) THEN [ok |-> FALSE, chars |-> acc, next |-> 0]
    ELSE IF text[j] = Quote THEN [ok |-> TRUE, chars |-> acc, next |-> j + 1]
    ELSE IF text[j] = Backslash
    THEN IF j + 1 > Len(text) THEN [ok |-> FALSE, chars |-> acc, next |-> 0]
         ELSE ParseString(text, j + 2, Append(acc, text[j + 1]))
    ELSE ParseString(text, j + 1, Append(acc, text[j]))

RECURSIVE ParseMembers(_, _, _)
RECURSIVE AfterKey(_, _, _)
RECURSIVE AfterValue(_, _, _, _)

\* after "key":"value" comes a comma and a further member, or the closing
\* brace at the end of the text; a repeated key keeps its place and takes
\* the later value
AfterValue(text, key, v, entries) ==
    IF ~v.ok \/ v.next > Len(text) THEN SyntaxError
    ELSE IF text[v.next] = ","
    THEN ParseMembers(text, v.next + 1, SetEntry(entries, key, Str(v.chars)))
    ELSE IF text[v.next] = "}" /\ v.next = Len(text)
    THEN Return(Obj(SetEntry(entries, key, Str(v.chars))))
    ELSE SyntaxError

AfterKey(text, k, entries) ==
    IF /\ k.ok
       /\ Len(k.chars) = 1
       /\ k.next + 1 <= Len(text)
       /\ text[k.next] = ":"
       /\ text[k.next + 1] = Quote
    THEN AfterValue(text, k.chars[1], ParseString(text, k.next + 2, <<>>), entries)
    ELSE SyntaxError

ParseMembers(text, i, entries) ==
    IF i <= Len(text) /\ text[i] = Quote
    THEN AfterKey(text, ParseString(text, i + 1, <<>>), entries)
    ELSE SyntaxError

\* JSON.parse(content) for the text of an object whose values are strings
JSONParse(text) ==
    IF Len(text) >= 2 /\ text[1] = "{"
    THEN IF text[2] = "}"
         THEN IF Len(text) = 2 THEN Return(Obj(<<>>)) ELSE SyntaxError
         ELSE ParseMembers(text, 2, <<>>)
    ELSE SyntaxError

(***************************************************************************)
(* getManifestAtRef: the outcome of one fetch, given what getContent       *)
(* answers.                                                                *)
(***************************************************************************)
\* data.content: the base64 encoding of a text
Base64(text) == [encoding |-> "base64", decoded |-> text]

\* Buffer.from(data.content, 'base64').toString('utf-8')
Base64Decode(content) == content.decoded

\* the data of a file, and of anything without a content property
FileData(text) == [hasContent |-> TRUE, content |-> Base64(text)]
DirData == [hasContent |-> FALSE, content |-> Base64(<<>>)]

\* variant of catchResult that answers null for every error with a status
catchResult_AnyStatus(error) ==
    IF error.type = "object" /\ error.hasStatus
    THEN Return(NullManifest)
    ELSE Rejected(error)

\* variant of catchResult that throws a new error in place of the caught one
catchResult_Wraps(error) ==
    IF error.type = "object" /\ error.hasStatus /\ error.status = 404
    THEN Return(NullManifest)
    ELSE Rejected(ErrorInstance(<<"Failed to fetch manifest: ">> \o error.message))

\* the catch block: null for an object with status 404, else the same error
catchResult(error) ==
    IF error.type = "object" /\ error.hasStatus /\ error.status = 404
    THEN Return(NullManifest)
    ELSE Rejected(error)

\* an error thrown by JSON.parse inside the try block is caught as well
parsedResult(parsed) ==
    IF parsed.kind = "reject" THEN catchResult(parsed.error) ELSE parsed

\* the try block, once getContent has resolved with data
tryResult(data) ==
    IF data.hasContent /\ data.content.decoded # <<>>
    THEN parsedResult(JSONParse(Base64Decode(data.content)))
    ELSE Return(NullManifest)

getManifestAtRef(response) ==
    IF response.kind = "reject" THEN catchResult(response.error)
    ELSE tryResult(response.value)

(***************************************************************************)
(* The action: run(), detectMajorBumps and its two fetches.                *)
(***************************************************************************)
INPUT_GITHUB_TOKEN == "github_token"
INPUT_MANIFEST_FILE == "manifest_file"
OUTPUT_HAS_MAJOR_BUMP == "has_major_bump"
OUTPUT_MAJOR_BUMPS == "major_bumps"
OUTPUT_UPDATED_PATHS == "updated_paths"
DefaultManifestFile == ".release-please-manifest.json"

PullRequestOnly ==
    <<"U+26D4 U+FE0F", " This action can only be run on pull_request events">>

Bool(b) == [type |-> "boolean", chars |-> <<IF b THEN "true" ELSE "false">>]

\* core.getInput(name, options): a required input that is empty throws
getInput(name, required) ==
    IF required /\ inputs[name] = ""
    THEN Rejected(ErrorInstance(<<"Input required and not supplied: ", name>>))
    ELSE Return(inputs[name])

\* variant of runEntry that reads the token before it looks at the payload
runEntry_InputsFirst(pullRequest, token) ==
    IF token.kind = "reject"
    THEN [read |-> <<INPUT_GITHUB_TOKEN>>, thrown |-> token]
    ELSE IF ~pullRequest
    THEN [read |-> <<INPUT_GITHUB_TOKEN>>,
          thrown |-> Rejected(ErrorInstance(PullRequestOnly))]
    ELSE [read |-> <<INPUT_GITHUB_TOKEN, INPUT_MANIFEST_FILE>>, thrown |-> Pending]

\* the statements of run() before the client is created: the inputs read
\* and the error thrown, if any
runEntry(pullRequest, token) ==
    IF ~pullRequest
    THEN [read |-> <<>>, thrown |-> Rejected(ErrorInstance(PullRequestOnly))]
    ELSE IF token.kind = "reject"
    THEN [read |-> <<INPUT_GITHUB_TOKEN>>, thrown |-> token]
    ELSE [read |-> <<INPUT_GITHUB_TOKEN, INPUT_MANIFEST_FILE>>, thrown |-> Pending]

\* core.getInput(INPUT_MANIFEST_FILE) || '.release-please-manifest.json'
manifestFile ==
    IF inputs[INPUT_MANIFEST_FILE] = "" THEN DefaultManifestFile
    ELSE inputs[INPUT_MANIFEST_FILE]

\* the parameters of one getContent request
Request(ref) ==
    [owner |-> payload.owner, repo |-> payload.repo, path |-> manifestFile,
     ref |-> ref]

\* variant of setFailedMessage that reads .message of whatever was thrown
setFailedMessage_AlwaysMessage(error) == <<"Action failed: ">> \o error.message

\* the catch block of run()
setFailedMessage(error) ==
    IF error.isError THEN <<"Action failed: ">> \o error.message
    ELSE <<"Action failed with unknown error">>

\* the error value an outcome carries: new Error(message) for a throw of the
\* differ, the rejection value of a fetch otherwise
ThrownValue(outcome) ==
    IF outcome.kind = "throw" THEN ErrorInstance(outcome.message)
    ELSE outcome.error

RECURSIVE bumpInfos(_, _)
bumpInfos(majorBumps, i) ==
    IF i > Len(majorBumps) THEN <<>>
    ELSE <<<<"U+1F4C8", " ", majorBumps[i].key, ": ">>
             \o majorBumps[i].value[1].chars \o <<" ", "U+2192", " ">>
             \o majorBumps[i].value[2].chars>>
         \o bumpInfos(majorBumps, i + 1)

\* the lines logged for a result
resultInfos(result) ==
    IF result.hasMajorBump
    THEN <<<<"U+1F6A8", " Major version bump(s) detected!">>>>
            \o bumpInfos(result.majorBumps, 1)
    ELSE <<<<"U+2705", " No major version bumps detected">>>>

\* the two setOutput calls
setOutputs(result) ==
    <<[name |-> OUTPUT_HAS_MAJOR_BUMP, value |-> Bool(result.hasMajorBump)],
      [name |-> OUTPUT_UPDATED_PATHS,
       value |-> Str(JSONStringify(result.majorBumps))]>>

\* variant of PromiseAll that hands on the values in the order of completion
PromiseAll_CompletionOrder(settled, order) ==
    <<settled[order[1]].value, settled[order[2]].value>>

\* Promise.all([base, head]) once both have resolved: the values in the
\* order of the array, whatever the order of completion
PromiseAll(settled, order) == <<settled.base.value, settled.head.value>>

Refs == {"base", "head"}
Other(ref) == IF ref = "base" THEN "head" ELSE "base"

RunTexts == CallTexts
RunPaths == {".", "packages/foo"}

InRunDomain(m) ==
    /\ Keys(m) \subseteq RunPaths
    /\ \A i \in DOMAIN m.entries : m.entries[i].value.chars \in RunTexts

FetchErrors ==
    { ErrorValue("object", FALSE, TRUE, 404, <<>>),
      ErrorValue("object", TRUE, TRUE, 404, <<"Not Found">>),
      ErrorValue("object", FALSE, TRUE, 500, <<"Internal server error">>),
      ErrorInstance(<<"Failed to fetch manifest">>),
      ErrorValue("string", FALSE, FALSE, 0, <<"String error">>) }

\* what getContent can answer for a manifest file
Responses(manifests) ==
    {Return(FileData(ManifestText(m))) : m \in manifests}
        \cup {Return(FileData(<<>>)), Return(DirData)}
        \cup {Rejected(e) : e \in FetchErrors}

BaseResponses == Responses({m \in OldManifests : InRunDomain(m)})
HeadResponses == Responses({m \in NewManifests : InRunDomain(m)})

Payloads ==
    {[pull_request |-> p, baseSha |-> "base-sha-123", headSha |-> "head-sha-456",
      owner |-> "test-owner", repo |-> "test-repo"] : p \in BOOLEAN}

Inputs ==
    {[github_token |-> t, manifest_file |-> f] :
        t \in {"", "test-token"}, f \in {"", "custom/manifest.json"}}

InitRun ==
    /\ oldVersion = <<>>
    /\ newVersion = <<>>
    /\ verOp = "none"
    /\ verOut = NotCalled
    /\ oldManifest = NullManifest
    /\ newManifest = NullManifest
    /\ analysis = NotCalled
    /\ calls = <<>>
    /\ payload \in Payloads
    /\ inputs \in Inputs
    /\ responses \in [base : BaseResponses, head : HeadResponses]
    /\ pc = "start"
    /\ inputsRead = <<>>
    /\ client = "none"
    /\ requests = <<>>
    /\ fetches = [base |-> NotCalled, head |-> NotCalled]
    /\ completed = <<>>
    /\ detect = NotCalled
    /\ infos = <<>>
    /\ outputs = <<>>
    /\ failed = <<>>
    /\ runPromise = "pending"

\* the catch block of run(): setFailed is called and run() resolves
Caught(error) ==
    /\ failed' = Append(failed, setFailedMessage(error))
    /\ pc' = "done"
    /\ runPromise' = "resolved"

\* run() from its call to the await: the payload is checked, the inputs are
\* read, the client is created, and detectMajorBumps starts both fetches
Started(begin) ==
    /\ inputsRead' = begin.read
    /\ IF begin.thrown.kind = "reject"
       THEN /\ Caught(begin.thrown.error)
            /\ UNCHANGED <<client, requests, fetches, detect, infos>>
       ELSE /\ client' = inputs[INPUT_GITHUB_TOKEN]
            /\ infos' = <<<<"Analyzing ", manifestFile, " changes between ",
                           payload.baseSha, " and ", payload.headSha>>>>
            /\ requests' = <<Request(payload.baseSha), Request(payload.headSha)>>
            /\ fetches' = [base |-> Pending, head |-> Pending]
            /\ detect' = Pending
            /\ pc' = "fetching"
            /\ UNCHANGED <<failed, runPromise>>

RunStart ==
    /\ pc = "start"
    /\ Started(runEntry(payload.pull_request, getInput(INPUT_GITHUB_TOKEN, TRUE)))
    /\ UNCHANGED <<oldVersion, newVersion, verOp, verOut, oldManifest, newManifest,
                   analysis, calls, payload, inputs, responses, completed, outputs>>

\* detectMajorBumps and run() after both fetches have resolved: the differ
\* is called on the two snapshots, and its result is logged and set as the
\* outputs, or its error is caught
Analyzed(snapshots, result) ==
    /\ oldManifest' = snapshots[1]
    /\ newManifest' = snapshots[2]
    /\ analysis' = result
    /\ calls' = Append(calls, [old |-> snapshots[1], new |-> snapshots[2],
                               outcome |-> result])
    /\ IF result.kind = "return"
       THEN /\ detect' = result
            /\ infos' = infos \o resultInfos(result.value)
            /\ outputs' = outputs \o setOutputs(result.value)
            /\ pc' = "done"
            /\ runPromise' = "resolved"
            /\ UNCHANGED failed
       ELSE /\ detect' = Rejected(ThrownValue(result))
            /\ Caught(ThrownValue(result))
            /\ UNCHANGED <<infos, outputs>>

AnalyzeSnapshots(snapshots) ==
    Analyzed(snapshots, analyzeManifestChanges(snapshots[1], snapshots[2]))

\* one fetch completes with an outcome: the first rejection rejects
\* Promise.all and is caught by run(); the second resolution resolves it;
\* a fetch that completes after a rejection changes nothing any more
Settled(ref, outcome, settled, order) ==
    /\ fetches' = settled
    /\ completed' = order
    /\ IF detect.kind # "pending"
       THEN UNCHANGED <<oldManifest, newManifest, analysis, calls, detect, infos,
                        outputs, failed, pc, runPromise>>
       ELSE IF outcome.kind = "reject"
       THEN /\ detect' = outcome
            /\ Caught(outcome.error)
            /\ UNCHANGED <<oldManifest, newManifest, analysis, calls, infos, outputs>>
       ELSE IF settled[Other(ref)].kind = "return"
       THEN AnalyzeSnapshots(PromiseAll(settled, order))
       ELSE UNCHANGED <<oldManifest, newManifest, analysis, calls, detect, infos,
                        outputs, failed, pc, runPromise>>

Completes(ref, outcome) ==
    Settled(ref, outcome, [fetches EXCEPT ![ref] = outcome], Append(completed, ref))

\* getContent answers for one revision and getManifestAtRef completes
Respond(ref) ==
    /\ fetches[ref].kind = "pending"
    /\ Completes(ref, getManifestAtRef(responses[ref]))
    /\ UNCHANGED <<oldVersion, newVersion, verOp, verOut, payload, inputs,
                   responses, inputsRead, client, requests>>

RespondBase == Respond("base")

RespondHead == Respond("head")

NextRun == RunStart \/ RespondBase \/ RespondHead

SpecRun == InitRun /\ [][NextRun]_vars

(***************************************************************************)
(* Properties of the version functions, checked under SpecVersion.         *)
(***************************************************************************)
ValidText(t) == semverParse(Str(t)).type # "null"

\* the integer written before the first dot of a version text
MajorInteger(t) ==
    LET body == Unprefixed(t)
    IN  DigitsToNat(SubSeq(body, 1, FirstIn(body, {"."}) - 1))

\* C1: for every pair of valid version strings, isMajorBump returns true if
\* and only if the major integer of new is strictly greater than the major
\* integer of old; minor and patch are ignored.
C1_MajorBumpIffMajorGreater ==
    (verOp = "isMajorBump" /\ ValidText(oldVersion) /\ ValidText(newVersion))
        => verOut = Return(MajorInteger(newVersion) > MajorInteger(oldVersion))

\* isMajorBump("9.3.4", "10.0.0") returned true
C1_Witness ==
    /\ verOp = "isMajorBump"
    /\ oldVersion = V(9, 3, 4)
    /\ newVersion = V(10, 0, 0)
    /\ verOut = Return(TRUE)

\* The shape the claim C6 describes: at most one leading non-digit
\* character, then exactly three dot-separated runs of digits, nothing after.
ClaimedShapeBody(t) ==
    IF t # <<>> /\ t[1] \notin Digits \cup {"."} THEN Tail(t) ELSE t

ClaimedShape(t) ==
    LET parts == Split(ClaimedShapeBody(t), ".")
    IN  /\ Len(parts) = 3
        /\ \A i \in 1..3 : parts[i] # <<>> /\ AllIn(parts[i], Digits)

\* C6 as claimed: parseVersion succeeds exactly on the texts of the claimed
\* shape, and returns the three integers and the text without its prefix.
C6_Original ==
    verOp = "parseVersion" =>
        /\ verOut.kind = "return" <=> ClaimedShape(oldVersion)
        /\ verOut.kind = "return" =>
              LET parts == Split(ClaimedShapeBody(oldVersion), ".")
              IN  /\ verOut.value.version = ClaimedShapeBody(oldVersion)
                  /\ verOut.value.major = DigitsToNat(parts[1])
                  /\ verOut.value.minor = DigitsToNat(parts[2])
                  /\ verOut.value.patch = DigitsToNat(parts[3])

\* a decimal integer without leading zeros, at most Number.MAX_SAFE_INTEGER
Numeral(s) ==
    /\ s # <<>>
    /\ AllIn(s, Digits)
    /\ (Len(s) > 1 => s[1] # "0")
    /\ \/ Len(s) < Len(MaxSafeDigits)
       \/ Len(s) = Len(MaxSafeDigits) /\ ~DigitsGreater(s, MaxSafeDigits)

\* dot-separated non-empty identifiers of letters, digits and hyphens; with
\* strict, an identifier of digits only has no leading zero
IdentifierList(s, strict) ==
    /\ s # <<>>
    /\ AllIn(s, IdentifierChars \cup {"."})
    /\ s[1] # "." /\ s[Len(s)] # "."
    /\ \A i \in 1..(Len(s) - 1) : ~(s[i] = "." /\ s[i + 1] = ".")
    /\ strict =>
          \A i \in 1..(Len(s) - 1) :
              (s[i] = "0" /\ (i = 1 \/ s[i - 1] = ".") /\ s[i + 1] # ".")
                  => \E j \in (i + 1)..Len(s) :
                        /\ s[j] \notin Digits
                        /\ \A k \in i..j : s[k] # "."

\* (-PRERELEASE)?(+BUILD)?
SuffixShape(r) ==
    \/ r = <<>>
    \/ r[1] = "+" /\ IdentifierList(Tail(r), FALSE)
    \/ /\ r[1] = "-"
       /\ LET plus == FirstIn(r, {"+"})
          IN  IF plus = 0 THEN IdentifierList(Tail(r), TRUE)
              ELSE /\ IdentifierList(SubSeq(r, 2, plus - 1), TRUE)
                   /\ IdentifierList(SubSeq(r, plus + 1, Len(r)), FALSE)

\* the positions <<first dot, second dot, last digit of patch>> that split
\* the unprefixed text b into MAJOR.MINOR.PATCH and a suffix
Splits(b) ==
    {d \in (1..Len(b)) \X (1..Len(b)) \X (1..Len(b)) :
        /\ d[1] < d[2] /\ d[2] < d[3]
        /\ b[d[1]] = "." /\ b[d[2]] = "."
        /\ Numeral(SubSeq(b, 1, d[1] - 1))
        /\ Numeral(SubSeq(b, d[1] + 1, d[2] - 1))
        /\ Numeral(SubSeq(b, d[2] + 1, d[3]))
        /\ SuffixShape(SubSeq(b, d[3] + 1, Len(b)))}

\* [optional v]MAJOR.MINOR.PATCH(-PRERELEASE)?(+BUILD)?
SemverShape(t) == Len(t) <= 256 /\ Splits(Unprefixed(t)) # {}

\* the text up to, not including, the first "+"
WithoutBuild(b) ==
    IF FirstIn(b, {"+"}) = 0 THEN b ELSE SubSeq(b, 1, FirstIn(b, {"+"}) - 1)

\* C6, amended: parseVersion succeeds exactly on the texts of the shape
\* [optional "v"]MAJOR.MINOR.PATCH[-PRERELEASE][+BUILD], each number without
\* leading zeros, and on success returns the three integers and, as version,
\* the text without the "v" and without the build metadata.
C6_ParseVersionShape ==
    verOp = "parseVersion" =>
        /\ verOut.kind = "return" <=> SemverShape(oldVersion)
        /\ verOut.kind = "return" =>
              LET b == Unprefixed(oldVersion)
                  d == CHOOSE d \in Splits(b) : TRUE
              IN  /\ verOut.value.version = WithoutBuild(b)
                  /\ verOut.value.major = DigitsToNat(SubSeq(b, 1, d[1] - 1))
                  /\ verOut.value.minor = DigitsToNat(SubSeq(b, d[1] + 1, d[2] - 1))
                  /\ verOut.value.patch = DigitsToNat(SubSeq(b, d[2] + 1, d[3]))

\* parseVersion("v10.3.4-rc.1") returned version "10.3.4-rc.1", major 10
C6_Witness ==
    /\ verOp = "parseVersion"
    /\ oldVersion = <<"v">> \o V(10, 3, 4) \o <<"-", "r", "c", ".", "1">>
    /\ verOut.kind = "return"
    /\ verOut.value.version = V(10, 3, 4) \o <<"-", "r", "c", ".", "1">>
    /\ verOut.value.major = 10

\* C7: whenever parseVersion rejects its input, and whenever isMajorBump is
\* given an unparsable old or new string, the error raised has the message
\* "Invalid version format: " followed by the offending input verbatim, and
\* isMajorBump returns no boolean.
C7_ErrorCarriesInput ==
    /\ (verOp = "parseVersion" /\ verOut.kind # "return")
          => verOut = Throw(<<"Invalid version format: ">> \o oldVersion)
    /\ (verOp = "isMajorBump" /\ (~ValidText(oldVersion) \/ ~ValidText(newVersion)))
          => /\ verOut.kind = "throw"
             /\ \E t \in {oldVersion, newVersion} :
                   /\ ~ValidText(t)
                   /\ verOut.message = <<"Invalid version format: ">> \o t

\* isMajorBump("1.2.3", "1.2") threw "Invalid version format: 1.2"
C7_Witness ==
    /\ verOp = "isMajorBump"
    /\ oldVersion = V(1, 3, 4)
    /\ newVersion = <<"1", ".", "2">>
    /\ verOut = Throw(<<"Invalid version format: ", "1", ".", "2">>)

(***************************************************************************)
(* Properties of the differ, checked under Spec.                           *)
(***************************************************************************)
Present(m) == m.type = "object"
Called == analysis.kind # "none"
BothPresent == Present(oldManifest) /\ Present(newManifest)
EmptyResult == [hasMajorBump |-> FALSE, majorBumps |-> <<>>]

\* the paths that are keys of both snapshots
Overlap == Keys(oldManifest) \cap Keys(newManifest)

OldText(path) == OwnValue(oldManifest, path).chars
NewText(path) == OwnValue(newManifest, path).chars

\* the snapshot without the key path, and with no other key than path
Without(m, path) == Obj(SelectSeq(m.entries, LAMBDA e : e.key # path))
Restrict(m, path) == Obj(SelectSeq(m.entries, LAMBDA e : e.key = path))

BumpKeys(result) == {result.majorBumps[i].key : i \in 1..Len(result.majorBumps)}
BumpAt(result, path) ==
    result.majorBumps[CHOOSE i \in 1..Len(result.majorBumps) :
                          result.majorBumps[i].key = path].value

\* what a call reports for one path: the recorded pair, or nothing
ReportFor(outcome, path) ==
    IF outcome.kind = "return" /\ path \in BumpKeys(outcome.value)
    THEN <<"bump", BumpAt(outcome.value, path)>>
    ELSE <<"none">>

\* C2: when both snapshots are present and every version string is valid,
\* majorBumps holds exactly the paths of both snapshots whose strings differ
\* and whose major integer increased, each mapped to [old, new].
C2_ExactlyTheMajorBumps ==
    ( /\ Called /\ BothPresent
      /\ \A i \in 1..Len(oldManifest.entries) : ValidText(oldManifest.entries[i].value.chars)
      /\ \A i \in 1..Len(newManifest.entries) : ValidText(newManifest.entries[i].value.chars) )
    => /\ analysis.kind = "return"
       /\ BumpKeys(analysis.value) =
            {path \in Overlap :
                /\ OldText(path) # NewText(path)
                /\ MajorInteger(NewText(path)) > MajorInteger(OldText(path))}
       /\ Cardinality(BumpKeys(analysis.value)) = Len(analysis.value.majorBumps)
       /\ \A path \in BumpKeys(analysis.value) :
             BumpAt(analysis.value, path) = <<Str(OldText(path)), Str(NewText(path))>>

\* C3: if either snapshot is absent, the result is {hasMajorBump: false,
\* majorBumps: {}} whatever the other snapshot holds, and nothing is thrown.
C3_AbsentGivesEmpty ==
    (Called /\ ~BothPresent) => analysis = Return(EmptyResult)

\* the old snapshot is absent, the new one holds an unparsable version
C3_Witness ==
    /\ Called
    /\ ~Present(oldManifest)
    /\ Present(newManifest)
    /\ \E i \in 1..Len(newManifest.entries) :
          newManifest.entries[i].value.chars = <<"1", ".", "2">>
    /\ analysis = Return(EmptyResult)

\* C4: in every result returned, hasMajorBump is true if and only if
\* majorBumps is non-empty.
C4_FlagIffNonEmpty ==
    analysis.kind = "return" =>
        (analysis.value.hasMajorBump <=> analysis.value.majorBumps # <<>>)

\* a result with exactly one recorded path
C4_Witness ==
    /\ analysis.kind = "return"
    /\ Len(analysis.value.majorBumps) = 1
    /\ analysis.value.hasMajorBump

\* the version at path, in either snapshot, does not parse
Malformed(path) == ~ValidText(OldText(path)) \/ ~ValidText(NewText(path))

\* C5 as claimed: a malformed version string anywhere in the overlap makes
\* analyzeManifestChanges throw.
C5_Original ==
    (Called /\ BothPresent /\ \E path \in Overlap : Malformed(path))
        => analysis.kind = "throw"

\* C5, amended: a malformed version string at a path of the overlap whose old
\* string is non-empty and differs from the new one makes
\* analyzeManifestChanges throw "Invalid version format: ..."; no result is
\* returned.
C5_MalformedChangedAborts ==
    ( /\ Called /\ BothPresent
      /\ \E path \in Overlap :
            /\ Malformed(path)
            /\ OldText(path) # <<>>
            /\ OldText(path) # NewText(path) )
    => /\ analysis.kind = "throw"
       /\ analysis.message[1] = "Invalid version format: "

\* the first path is a major bump, the second is malformed: the call threw
C5_Witness ==
    /\ Called /\ BothPresent
    /\ Len(newManifest.entries) = 2
    /\ newManifest.entries[1].key \in Overlap
    /\ OldText(newManifest.entries[1].key) = V(1, 2, 3)
    /\ NewText(newManifest.entries[1].key) = V(2, 0, 0)
    /\ newManifest.entries[2].key \in Overlap
    /\ OldText(newManifest.entries[2].key) = V(1, 2, 3)
    /\ NewText(newManifest.entries[2].key) = <<"1", ".", "2">>
    /\ analysis = Throw(<<"Invalid version format: ", "1", ".", "2">>)

\* C8: a path that is a key of the new snapshot but not of the old one never
\* appears in majorBumps and changes nothing: the outcome is the outcome
\* without that path, whatever its version.
C8_NewPathIgnored ==
    (Called /\ BothPresent) =>
        \A path \in Keys(newManifest) \ Keys(oldManifest) :
            /\ analysis = analyzeManifestChanges(oldManifest, Without(newManifest, path))
            /\ analysis.kind = "return" => path \notin BumpKeys(analysis.value)

\* C9: a path that is a key of the old snapshot but not of the new one is
\* never visited: it is not in majorBumps and the outcome is the outcome
\* without that path, so its version is never parsed.
C9_RemovedPathIgnored ==
    (Called /\ BothPresent) =>
        \A path \in Keys(oldManifest) \ Keys(newManifest) :
            /\ analysis = analyzeManifestChanges(Without(oldManifest, path), newManifest)
            /\ analysis.kind = "return" => path \notin BumpKeys(analysis.value)

\* a removed path with an unparsable version beside a path with a major bump
C9_Witness ==
    /\ Called /\ BothPresent
    /\ \E path \in Keys(oldManifest) \ Keys(newManifest) :
          OldText(path) = <<"1", ".", "2">>
    /\ analysis.kind = "return"
    /\ analysis.value.hasMajorBump

\* C10 as claimed: what is reported for a path is the same for any two pairs
\* of present snapshots that agree on that path; both then agree with the
\* pair that holds that path alone.  Stated here for snapshots whose paths
\* name no member of Object.prototype.
C10_Original ==
    ( /\ Called /\ BothPresent
      /\ Keys(newManifest) \cap ObjectPrototypeKeys = {} ) =>
        \A path \in Paths :
            ReportFor(analysis, path) =
                ReportFor(analyzeManifestChanges(Restrict(oldManifest, path),
                                                 Restrict(newManifest, path)), path)

\* C10, amended: among the calls that return a result, what is reported for a
\* path is the same for any two pairs of present snapshots that agree on that
\* path.
C10_KeyIndependence ==
    (Called /\ BothPresent /\ analysis.kind = "return") =>
        \A path \in Paths :
            LET alone == analyzeManifestChanges(Restrict(oldManifest, path),
                                                Restrict(newManifest, path))
            IN  /\ alone.kind = "return"
                /\ ReportFor(analysis, path) = ReportFor(alone, path)

\* two major bumps are reported together, each as it is reported alone
C10_Witness ==
    /\ Called /\ BothPresent
    /\ analysis.kind = "return"
    /\ Len(analysis.value.majorBumps) = 2


Orders(entries) ==
    {[i \in DOMAIN entries |-> entries[f[i]]] :
        f \in {g \in [DOMAIN entries -> DOMAIN entries] :
                  \A i, j \in DOMAIN entries : g[i] = g[j] => i = j}}

\* a returned result read as a mapping: its flag and its set of entries
AsMapping(result) ==
    [hasMajorBump |-> result.hasMajorBump,
     majorBumps |-> {result.majorBumps[i] : i \in DOMAIN result.majorBumps}]

\* two outcomes are the same result (as mappings) or the same error
SameOutcome(a, b) ==
    /\ a.kind = b.kind
    /\ a.kind = "throw" => a = b
    /\ a.kind = "return" => AsMapping(a.value) = AsMapping(b.value)

\* the entries of an enumeration at which the loop body throws
Offending(oldM, entries) ==
    {i \in DOMAIN entries :
        loopBody(oldM, entries[i].key, entries[i].value, <<>>).kind = "throw"}

FirstOffending(oldM, entries) ==
    CHOOSE i \in Offending(oldM, entries) :
        \A j \in Offending(oldM, entries) : i <= j

\* C17 as stated: for snapshots whose paths are not names of
\* Object.prototype, the outcome of analyzeManifestChanges (the result, or the
\* error with the text it carries) is the same for every enumeration order of
\* the keys of the new snapshot.
C17_Original ==
    (/\ Called
     /\ BothPresent
     /\ Keys(newManifest) \cap ObjectPrototypeKeys = {})
        => \A q \in Orders(newManifest.entries) :
              SameOutcome(analyzeManifestChanges(oldManifest, Obj(q)), analysis)

\* the outcome in one enumeration order q agrees with the outcome observed:
\* both return the same mapping, or both throw, and the error in order q is
\* the one of the first entry of q at which the loop body throws
OrderAgrees(q, outcome) ==
    /\ outcome.kind = analysis.kind
    /\ analysis.kind = "return" =>
          AsMapping(outcome.value) = AsMapping(analysis.value)
    /\ analysis.kind = "throw" =>
          outcome = loopBody(oldManifest,
                             q[FirstOffending(oldManifest, q)].key,
                             q[FirstOffending(oldManifest, q)].value, <<>>)

\* C17 amended: for every enumeration order of the keys of the new snapshot
\* the call either returns the same mapping or throws, the same way in all
\* orders; the error thrown is the one of the first entry, in that order,
\* at which the loop body throws.
C17_OrderIndependentUpToFirstError ==
    (Called /\ BothPresent)
        => \A q \in Orders(newManifest.entries) :
              OrderAgrees(q, analyzeManifestChanges(oldManifest, Obj(q)))

\* two changed entries of the overlap are malformed with different texts:
\* the call throws, and in the other order it throws with the other text
C17_Witness ==
    /\ Called
    /\ BothPresent
    /\ Len(newManifest.entries) = 2
    /\ Cardinality(Offending(oldManifest, newManifest.entries)) = 2
    /\ newManifest.entries[1].value # newManifest.entries[2].value
    /\ analysis = Throw(InvalidVersionFormat(newManifest.entries[1].value))
    /\ analyzeManifestChanges(oldManifest,
                              Obj(<<newManifest.entries[2], newManifest.entries[1]>>))
          = Throw(InvalidVersionFormat(newManifest.entries[2].value))


(***************************************************************************)
(* Properties of the fetches and of run().                                 *)
(***************************************************************************)
\* the snapshots whose file text getContent can answer with
FileManifests == {m \in NewManifests : InRunDomain(m)}

\* an error that means "not found": an object whose status is 404
IsNotFound(error) == error.type = "object" /\ error.hasStatus /\ error.status = 404

\* getContent fails for the revision with something other than not-found
OtherFailure(ref) ==
    responses[ref].kind = "reject" /\ ~IsNotFound(responses[ref].error)

\* getContent answers without content for the revision, or fails with 404
NoManifest(ref) ==
    \/ responses[ref].kind = "reject" /\ IsNotFound(responses[ref].error)
    \/ responses[ref].kind = "return" /\ ~responses[ref].value.hasContent
    \/ responses[ref].kind = "return" /\ responses[ref].value.content = Base64(<<>>)

HasCompleted(ref) == \E i \in DOMAIN completed : completed[i] = ref

\* C13: once getManifestAtRef has completed for a revision: if the response
\* carried the text of a mapping, it resolved to that mapping; if the fetch
\* failed with status 404 or the response carried no content, it resolved to
\* null; for every other failure it rejected with the same error value.
C13_FetchOutcome ==
    \A ref \in Refs :
        HasCompleted(ref) =>
            /\ \A m \in FileManifests :
                  responses[ref] = Return(FileData(ManifestText(m)))
                      => fetches[ref] = Return(m)
            /\ NoManifest(ref) => fetches[ref] = Return(NullManifest)
            /\ OtherFailure(ref) => fetches[ref] = Rejected(responses[ref].error)
            /\ fetches[ref].kind \in {"return", "reject"}

\* the base fetch failed with status 500 and rejected, and the head fetch
\* resolved to a mapping of two paths
C13_Witness ==
    /\ HasCompleted("base")
    /\ HasCompleted("head")
    /\ responses.base.kind = "reject"
    /\ responses.base.error.status = 500
    /\ fetches.base.kind = "reject"
    /\ fetches.head.kind = "return"
    /\ fetches.head.value.type = "object"
    /\ Len(fetches.head.value.entries) = 2

\* the first revision, in order of completion, whose fetch failed with
\* something other than not-found
FirstFailure ==
    completed[CHOOSE i \in DOMAIN completed :
                 /\ OtherFailure(completed[i])
                 /\ \A j \in 1..(i - 1) : ~OtherFailure(completed[j])]

\* C12: when a fetch of detectMajorBumps has failed with an error other than
\* not-found, detectMajorBumps rejects with that same error value (the one of
\* the fetch that failed first), analyzeManifestChanges is not called, and
\* each revision is requested once only; when the base revision is not found
\* and the head fetch resolves, the result is {hasMajorBump: false,
\* majorBumps: {}}.
C12_FetchFailurePropagates ==
    /\ (\E ref \in Refs : HasCompleted(ref) /\ OtherFailure(ref)) =>
          /\ detect = Rejected(responses[FirstFailure].error)
          /\ analysis = NotCalled
          /\ calls = <<>>
    /\ pc \in {"fetching", "done"} /\ detect.kind # "none" =>
          requests = <<Request(payload.baseSha), Request(payload.headSha)>>
    /\ (/\ HasCompleted("base")
        /\ HasCompleted("head")
        /\ responses.base.kind = "reject"
        /\ IsNotFound(responses.base.error)
        /\ ~OtherFailure("head")) =>
          detect = Return(EmptyResult)

\* both fetches failed with different errors, neither of them not-found, the
\* head fetch first, and detectMajorBumps rejected with the error of the
\* head fetch
C12_Witness ==
    /\ completed = <<"head", "base">>
    /\ OtherFailure("base")
    /\ OtherFailure("head")
    /\ responses.base.error # responses.head.error
    /\ detect = Rejected(responses.head.error)
    /\ Len(requests) = 2

\* C18: both fetches are started together, before either completes;
\* analyzeManifestChanges is called only when both have resolved, once, with
\* the snapshot of the base revision as old and that of the head revision as
\* new, whichever completed first.
C18_BaseIsOldHeadIsNew ==
    /\ fetches.base.kind = "none" <=> fetches.head.kind = "none"
    /\ completed # <<>> => Len(requests) = 2
    /\ calls # <<>> =>
          /\ Len(calls) = 1
          /\ Len(completed) = 2
          /\ fetches.base.kind = "return"
          /\ fetches.head.kind = "return"
          /\ calls[1].old = fetches.base.value
          /\ calls[1].new = fetches.head.value
          /\ \A m \in FileManifests :
                /\ responses.base = Return(FileData(ManifestText(m)))
                      => oldManifest = m
                /\ responses.head = Return(FileData(ManifestText(m)))
                      => newManifest = m
    /\ (fetches.base.kind = "return" /\ fetches.head.kind = "return")
          => calls # <<>>

\* the head fetch completed before the base fetch, the two snapshots differ,
\* and the differ reported a bump from the base version to the head version
C18_Witness ==
    /\ completed = <<"head", "base">>
    /\ Len(calls) = 1
    /\ oldManifest # newManifest
    /\ analysis.kind = "return"
    /\ analysis.value.hasMajorBump
    /\ oldManifest = Obj(<<[key |-> ".", value |-> Str(V(1, 2, 3))]>>)
    /\ newManifest = Obj(<<[key |-> ".", value |-> Str(V(2, 0, 0))]>>)

\* run() has ended without a call of setFailed
Succeeded == pc = "done" /\ failed = <<>>

\* the outputs reported under a name: the text of each value set
Reported(name) == {i \in DOMAIN outputs : outputs[i].name = name}

\* "path":["old","new"] written out for one entry
MemberText(entry) ==
    <<"\"", entry.key, "\"", ":", "[", "\"">> \o entry.value[1].chars
        \o <<"\"", ",", "\"">> \o entry.value[2].chars \o <<"\"", "]">>

\* the JSON text of a majorBumps mapping
MappingText(majorBumps) ==
    <<"{">> \o Join([i \in DOMAIN majorBumps |-> MemberText(majorBumps[i])], ",")
        \o <<"}">>

C16_NoPullRequestFailsFirst ==
    (~payload.pull_request /\ pc # "start") =>
        /\ pc = "done"
        /\ failed = <<<<"Action failed: ", "U+26D4 U+FE0F",
                        " This action can only be run on pull_request events">>>>
        /\ inputsRead = <<>>
        /\ client = "none"
        /\ requests = <<>>
        /\ fetches = [base |-> NotCalled, head |-> NotCalled]
        /\ completed = <<>>
        /\ outputs = <<>>

\* run() has ended on a payload without pull_request although the token
\* input is supplied
C16_Witness ==
    /\ ~payload.pull_request
    /\ inputs.github_token # ""
    /\ pc = "done"
    /\ Len(failed) = 1
    /\ inputsRead = <<>>

\* the message setFailed is to be called with for a thrown value
FailureText(error) ==
    IF error.isError THEN <<"Action failed: ">> \o error.message
    ELSE <<"Action failed with unknown error">>

\* C19: run() never rejects, setFailed is called at most once and never
\* together with an output; when run() has ended, either both outputs are
\* set once each and setFailed was not called, or setFailed was called once,
\* with 'Action failed: <message>' for an Error and 'Action failed with
\* unknown error' for any other thrown value, and no output is set.
C19_OneTerminalOutcome ==
    /\ runPromise # "rejected"
    /\ Len(failed) <= 1
    /\ ~(outputs # <<>> /\ failed # <<>>)
    /\ (runPromise = "resolved") <=> (pc = "done")
    /\ pc # "done" => (outputs = <<>> /\ failed = <<>>)
    /\ pc = "done" =>
          \/ /\ failed = <<>>
             /\ Len(outputs) = 2
             /\ outputs[1].name = "has_major_bump"
             /\ outputs[2].name = "updated_paths"
          \/ /\ Len(failed) = 1
             /\ outputs = <<>>
             /\ detect.kind = "reject" => failed[1] = FailureText(detect.error)
             /\ detect.kind = "none" => failed[1][1] = "Action failed: "
             /\ detect.kind \in {"reject", "none"}

\* a fetch rejected with a string, which is no Error, and run() ended with
\* the unknown-error message and without outputs
C19_Witness ==
    /\ pc = "done"
    /\ detect.kind = "reject"
    /\ detect.error.type = "string"
    /\ failed = <<<<"Action failed with unknown error">>>>
    /\ outputs = <<>>
    /\ runPromise = "resolved"

====
